---- MODULE Spec2Model ----
(***************************************************************************)
(* The numerical kernel of FD_nonlinear_stiff.py (lines 78-122): the step  *)
(* size, the grid and the backward, central and forward finite-difference  *)
(* trajectories of x' = -lam*x + x^alpha, executed statement by statement. *)
(*                                                                         *)
(* Numbers.  The script computes in IEEE doubles.  A double is modelled as *)
(* a fixed-point number: the integer v stands for v/Scale, every product   *)
(* and quotient is rounded (truncated) to that grid, a result beyond       *)
(* MaxMag overflows to PosInf/NegInf and an invalid operation gives NaN,   *)
(* the way numpy's float64 arithmetic does (warning, no exception).  alpha *)
(* is drawn from integer exponents, so x**alpha is a repeated product.     *)
(***************************************************************************)
EXTENDS Integers, Sequences, FiniteSets, TLC

\* ---------------------------------------------------------------- bounds
Scale  == 16       \* fixed-point resolution: v stands for v/Scale
MaxMag == 4000     \* largest finite magnitude; beyond it a result is +-inf
MaxN   == 4        \* largest number of grid intervals N
MaxRuns == 2       \* executions of the script (the first and its reruns)

\* ---------------------------------------------------------------- floats
PosInf == MaxMag + 1
NegInf == 0 - (MaxMag + 1)
NaN    == MaxMag + 2
One    == Scale

Abs(a) == IF a < 0 THEN 0 - a ELSE a
Sgn(a) == IF a < 0 THEN 0 - 1 ELSE IF a > 0 THEN 1 ELSE 0
IsInf(a) == a = PosInf \/ a = NegInf
SignedInf(s) == IF s < 0 THEN NegInf ELSE PosInf

\* rounding of an exact quotient a/b (b # 0) toward zero
TruncDiv(a, b) ==
    LET q == Abs(a) \div Abs(b)
    IN  IF Sgn(a) * Sgn(b) < 0 THEN 0 - q ELSE q

\* overflow of a finite result to +-inf
Norm(v) == IF v > MaxMag THEN PosInf ELSE IF v < 0 - MaxMag THEN NegInf ELSE v

\* The operations below are functions of their operands' values, wrapped in
\* operators: an operand is evaluated once, as an operand of float64 is.
NegV[a \in Int] == IF a = NaN THEN NaN ELSE 0 - a
Neg(a) == NegV[a]

AddV[a \in Int, b \in Int] ==
    IF a = NaN \/ b = NaN THEN NaN
    ELSE IF IsInf(a) /\ IsInf(b) THEN (IF a = b THEN a ELSE NaN)
    ELSE IF IsInf(a) THEN a
    ELSE IF IsInf(b) THEN b
    ELSE Norm(a + b)
Add(a, b) == AddV[a, b]

MulV[a \in Int, b \in Int] ==
    IF a = NaN \/ b = NaN THEN NaN
    ELSE IF IsInf(a) \/ IsInf(b)
         THEN (IF a = 0 \/ b = 0 THEN NaN ELSE SignedInf(Sgn(a) * Sgn(b)))
    ELSE Norm(TruncDiv(a * b, Scale))
Mul(a, b) == MulV[a, b]

\* numpy float64 true division: x/0 is +-inf or nan, never an exception
NpDivV[a \in Int, b \in Int] ==
    IF a = NaN \/ b = NaN THEN NaN
    ELSE IF IsInf(a) /\ IsInf(b) THEN NaN
    ELSE IF IsInf(a) THEN (IF b < 0 THEN 0 - a ELSE a)
    ELSE IF IsInf(b) THEN 0
    ELSE IF b = 0 THEN (IF a = 0 THEN NaN ELSE SignedInf(Sgn(a)))
    ELSE Norm(TruncDiv(a * Scale, b))
NpDiv(a, b) == NpDivV[a, b]

\* x ** alpha for an integer exponent a >= 1
RECURSIVE Pow(_, _)
Pow(x, a) == IF a <= 1 THEN x ELSE Mul(x, Pow(x, a - 1))

\* np.exp on finite arguments: argument halving down to |z| <= 1/2, then the
\* cubic Taylor polynomial
ExpFin[z \in Int] ==
    IF 2 * Abs(z) > Scale
    THEN Mul(ExpFin[TruncDiv(z, 2)], ExpFin[TruncDiv(z, 2)])
    ELSE Norm(Scale + z + TruncDiv(z * z, 2 * Scale)
                   + TruncDiv(z * z * z, 6 * Scale * Scale))

NpExpV[z \in Int] ==
    IF z = NaN THEN NaN
    ELSE IF z = PosInf THEN PosInf
    ELSE IF z = NegInf THEN 0
    ELSE ExpFin[z]
NpExp(z) == NpExpV[z]

\* Python float / int (line 78): a zero divisor raises ZeroDivisionError
\* instead of producing a value
PyDivNeverFaults(a, n) == FALSE
PyDivFaults(a, n) == n = 0
\* the quotient when no exception is raised (n # 0 whenever it is evaluated)
PyDiv(a, n) ==
    IF n = 0 THEN (IF a = 0 THEN NaN ELSE SignedInf(Sgn(a))) ELSE Norm(TruncDiv(a, n))

\* ---------------------------------------------------------------- arrays
\* a numpy array of length n is a function on 0..n-1; <<>> is "not created"
Zeros(n) == [j \in 0..(n - 1) |-> 0]
Size(buf) == Cardinality(DOMAIN buf)
\* numpy indexing: -Size..Size-1 are legal, a negative index counts from the end
InBounds(buf, idx) == (0 - Size(buf)) <= idx /\ idx < Size(buf)
Resolve(buf, idx) == IF idx < 0 THEN idx + Size(buf) ELSE idx
Load(buf, idx) == buf[Resolve(buf, idx)]
Store(buf, idx, v) == [buf EXCEPT ![Resolve(buf, idx)] = v]

\* np.linspace(0, stop, num), num >= 1
Linspace(stop, num) ==
    [j \in 0..(num - 1) |->
        IF j = 0 THEN 0
        ELSE IF j = num - 1 THEN stop
        ELSE Norm(j * TruncDiv(stop, num - 1))]

\* range(lo, hi) as the sequence of values it yields
RangeSeq(lo, hi) == [j \in 1..(hi - lo) |-> lo + j - 1]

\* ---------------------------------------------------------------- inputs
\* values the sidebar widgets (lines 43-72) can hand to the kernel
Lams   == {7 * Scale, 0 - Scale, 0 - 6 * Scale}
Alphas == {2, 3}
Ts     == {Scale, 2 * Scale}
X0s    == {Scale, 2 * Scale}
XTs    == {0, Scale}
Ns     == 0..MaxN

VARIABLES
    lam, alpha, T, x0, xT, N,     \* the parameters of this execution
    h, t,                         \* step size and grid
    x_back, x_cent, x_forw,       \* the three trajectories
    i, xi,                        \* loop variable, fixed-point iterate
    it, k,                        \* positions of the outer / inner range iterator
    pc, err,                      \* next statement (by line), exception raised
    run, hist,                    \* execution number, results of earlier executions
    nBack, nCent, nForw           \* updates performed by each scheme in this execution

params == <<lam, alpha, T, x0, xT, N>>
bufs   == <<x_back, x_cent, x_forw>>
counts == <<nBack, nCent, nForw>>
vars   == <<lam, alpha, T, x0, xT, N, h, t, x_back, x_cent, x_forw, i, xi, it, k,
            pc, err, run, hist, nBack, nCent, nForw>>

ZeroDivisionError == "ZeroDivisionError"
IndexError == "IndexError"
NoError    == "none"

Init ==
    /\ lam \in Lams /\ alpha \in Alphas /\ T \in Ts
    /\ x0 \in X0s /\ xT \in XTs /\ N \in Ns
    /\ h = 0 /\ t = <<>>
    /\ x_back = <<>> /\ x_cent = <<>> /\ x_forw = <<>>
    /\ i = 0 /\ xi = 0 /\ it = 0 /\ k = 0
    /\ pc = "L78" /\ err = NoError
    /\ run = 1 /\ hist = <<>>
    /\ nBack = 0 /\ nCent = 0 /\ nForw = 0

\* an uncaught exception ends the execution where it is raised
Raise(e) ==
    /\ pc' = "error" /\ err' = e
    /\ UNCHANGED <<params, h, t, bufs, i, xi, it, k, run, hist, counts>>

\* ---------------------------------------------------------------- grid
\* line 78: h = T / N
L78 ==
    /\ pc = "L78"
    /\ IF PyDivFaults(T, N)
       THEN Raise(ZeroDivisionError)
       ELSE /\ h' = PyDiv(T, N)
            /\ pc' = "L79"
            /\ UNCHANGED <<params, t, bufs, i, xi, it, k, err, run, hist, counts>>

\* line 79: t = np.linspace(0, T, N + 1)
L79 ==
    /\ pc = "L79"
    /\ t' = Linspace(T, N + 1)
    /\ pc' = "L92"
    /\ UNCHANGED <<params, h, bufs, i, xi, it, k, err, run, hist, counts>>

\* lines 85-86: f(x) = -lam * x + x**alpha
f(x) == Add(Mul(Neg(lam), x), Pow(x, alpha))

\* ---------------------------------------------------------------- backward
\* line 92: x_back = np.zeros(N + 1)
L92 ==
    /\ pc = "L92"
    /\ x_back' = Zeros(N + 1)
    /\ pc' = "L93"
    /\ UNCHANGED <<params, h, t, x_cent, x_forw, i, xi, it, k, err, run, hist, counts>>

\* line 93: x_back[0] = x0
L93 ==
    /\ pc = "L93"
    /\ IF ~InBounds(x_back, 0)
       THEN Raise(IndexError)
       ELSE /\ x_back' = Store(x_back, 0, x0)
            /\ pc' = "L94"
            /\ UNCHANGED <<params, h, t, x_cent, x_forw, i, xi, it, k, err, run, hist,
                           counts>>

\* line 94: x_back[-1] = xT; then the range of line 96 is created
L94 ==
    /\ pc = "L94"
    /\ IF ~InBounds(x_back, 0 - 1)
       THEN Raise(IndexError)
       ELSE /\ x_back' = Store(x_back, 0 - 1, xT)
            /\ pc' = "L96" /\ it' = 0
            /\ UNCHANGED <<params, h, t, x_cent, x_forw, i, xi, k, err, run, hist,
                           counts>>

\* line 96: for i in range(1, N)
BackRangeThroughN == RangeSeq(1, N + 1)
BackRange == RangeSeq(1, N)

L96 ==
    /\ pc = "L96"
    /\ IF it < Len(BackRange)
       THEN /\ i' = BackRange[it + 1] /\ it' = it + 1
            /\ pc' = "L97"
       ELSE /\ pc' = "L106"
            /\ UNCHANGED <<i, it>>
    /\ UNCHANGED <<params, h, t, bufs, xi, k, err, run, hist, counts>>

\* line 97: xi = x_back[i - 1]; then the range of line 98 is created
BackIterSeedStale == xi
BackIterSeed == Load(x_back, i - 1)

L97 ==
    /\ pc = "L97"
    /\ IF ~InBounds(x_back, i - 1)
       THEN Raise(IndexError)
       ELSE /\ xi' = BackIterSeed
            /\ pc' = "L98" /\ k' = 0
            /\ UNCHANGED <<params, h, t, bufs, i, it, err, run, hist, counts>>

\* line 98: for _ in range(15)
FixItersOneShort == 15 - 1
FixIters == 15

\* line 99: (x_back[i - 1] + h * xi**alpha) / (1 + h * lam)
FixMap(prev, y) == NpDiv(Add(prev, Mul(h, Pow(y, alpha))), Add(One, Mul(h, lam)))

\* lines 98-99: one turn of the inner loop, or leaving it
L98 ==
    /\ pc = "L98"
    /\ IF k < FixIters
       THEN IF ~InBounds(x_back, i - 1)
            THEN Raise(IndexError)
            ELSE /\ xi' = FixMap(Load(x_back, i - 1), xi)
                 /\ k' = k + 1
                 /\ nBack' = nBack + 1
                 /\ UNCHANGED <<params, h, t, bufs, i, it, pc, err, run, hist, nCent,
                                nForw>>
       ELSE /\ pc' = "L100"
            /\ UNCHANGED <<params, h, t, bufs, i, xi, it, k, err, run, hist, counts>>

\* line 100: x_back[i] = xi
L100 ==
    /\ pc = "L100"
    /\ IF ~InBounds(x_back, i)
       THEN Raise(IndexError)
       ELSE /\ x_back' = Store(x_back, i, xi)
            /\ pc' = "L96"
            /\ UNCHANGED <<params, h, t, x_cent, x_forw, i, xi, it, k, err, run, hist,
                           counts>>

\* ---------------------------------------------------------------- central
\* line 106: x_cent = np.zeros(N + 1)
L106 ==
    /\ pc = "L106"
    /\ x_cent' = Zeros(N + 1)
    /\ pc' = "L107"
    /\ UNCHANGED <<params, h, t, x_back, x_forw, i, xi, it, k, err, run, hist, counts>>

\* line 107: x_cent[0] = x0
L107 ==
    /\ pc = "L107"
    /\ IF ~InBounds(x_cent, 0)
       THEN Raise(IndexError)
       ELSE /\ x_cent' = Store(x_cent, 0, x0)
            /\ pc' = "L108"
            /\ UNCHANGED <<params, h, t, x_back, x_forw, i, xi, it, k, err, run, hist,
                           counts>>

\* line 108: x_cent[-1] = xT
L108 ==
    /\ pc = "L108"
    /\ IF ~InBounds(x_cent, 0 - 1)
       THEN Raise(IndexError)
       ELSE /\ x_cent' = Store(x_cent, 0 - 1, xT)
            /\ pc' = "L109"
            /\ UNCHANGED <<params, h, t, x_back, x_forw, i, xi, it, k, err, run, hist,
                           counts>>

\* line 109: x0 * np.exp(-lam * h)
CentSeed == Mul(x0, NpExp(Mul(Neg(lam), h)))

\* line 109: x_cent[1] = <seed>; then the range of line 111 is created
L109 ==
    /\ pc = "L109"
    /\ IF ~InBounds(x_cent, 1)
       THEN Raise(IndexError)
       ELSE /\ x_cent' = Store(x_cent, 1, CentSeed)
            /\ pc' = "L111" /\ it' = 0
            /\ UNCHANGED <<params, h, t, x_back, x_forw, i, xi, k, err, run, hist,
                           counts>>

\* line 111: for i in range(1, N)
CentRangeFromZero == RangeSeq(0, N)
CentRangeThroughN == RangeSeq(1, N + 1)
CentRange == RangeSeq(1, N)

L111 ==
    /\ pc = "L111"
    /\ IF it < Len(CentRange)
       THEN /\ i' = CentRange[it + 1] /\ it' = it + 1
            /\ pc' = "L112"
       ELSE /\ pc' = "L118"
            /\ UNCHANGED <<i, it>>
    /\ UNCHANGED <<params, h, t, bufs, xi, k, err, run, hist, counts>>

\* line 112, right-hand side: x_cent[i - 1] + 2 * h * f(x_cent[i])
CentNextOneSided == Add(Load(x_cent, i - 1), Mul(h, f(Load(x_cent, i))))
CentNext == Add(Load(x_cent, i - 1), Mul(Mul(2 * One, h), f(Load(x_cent, i))))

\* line 112: x_cent[i + 1] = <right-hand side>
L112 ==
    /\ pc = "L112"
    /\ IF ~(InBounds(x_cent, i - 1) /\ InBounds(x_cent, i) /\ InBounds(x_cent, i + 1))
       THEN Raise(IndexError)
       ELSE /\ x_cent' = Store(x_cent, i + 1, CentNext)
            /\ nCent' = nCent + 1
            /\ pc' = "L111"
            /\ UNCHANGED <<params, h, t, x_back, x_forw, i, xi, it, k, err, run, hist,
                           nBack, nForw>>

\* ---------------------------------------------------------------- forward
\* line 118: x_forw = np.zeros(N + 1)
L118 ==
    /\ pc = "L118"
    /\ x_forw' = Zeros(N + 1)
    /\ pc' = "L119"
    /\ UNCHANGED <<params, h, t, x_back, x_cent, i, xi, it, k, err, run, hist, counts>>

\* line 119, right-hand side: x0
ForwSeedFromXT == xT
ForwSeed == x0

\* line 119: x_forw[0] = x0; then the range of line 121 is created
L119 ==
    /\ pc = "L119"
    /\ IF ~InBounds(x_forw, 0)
       THEN Raise(IndexError)
       ELSE /\ x_forw' = Store(x_forw, 0, ForwSeed)
            /\ pc' = "L121" /\ it' = 0
            /\ UNCHANGED <<params, h, t, x_back, x_cent, i, xi, k, err, run, hist,
                           counts>>

\* line 121: for i in range(N)
ForwRangeOneShort == RangeSeq(0, N - 1)
ForwRange == RangeSeq(0, N)

L121 ==
    /\ pc = "L121"
    /\ IF it < Len(ForwRange)
       THEN /\ i' = ForwRange[it + 1] /\ it' = it + 1
            /\ pc' = "L122"
       ELSE /\ pc' = "done"
            /\ UNCHANGED <<i, it>>
    /\ UNCHANGED <<params, h, t, bufs, xi, k, err, run, hist, counts>>

\* line 122, right-hand side: x_forw[i] + h * f(x_forw[i])
ForwNext == Add(Load(x_forw, i), Mul(h, f(Load(x_forw, i))))

\* line 122: x_forw[i + 1] = <right-hand side>
L122 ==
    /\ pc = "L122"
    /\ IF ~(InBounds(x_forw, i) /\ InBounds(x_forw, i + 1))
       THEN Raise(IndexError)
       ELSE /\ x_forw' = Store(x_forw, i + 1, ForwNext)
            /\ nForw' = nForw + 1
            /\ pc' = "L121"
            /\ UNCHANGED <<params, h, t, x_back, x_cent, i, xi, it, k, err, run, hist,
                           nBack, nCent>>

\* ---------------------------------------------------------------- reruns
\* the parameters and trajectories of the execution that has just finished
Snapshot ==
    [lam |-> lam, alpha |-> alpha, T |-> T, x0 |-> x0, xT |-> xT, N |-> N,
     back |-> x_back, cent |-> x_cent, forw |-> x_forw]

\* The script is executed again from line 78 (a changed boundary-value widget,
\* or a plain rerun with nothing changed).  Every name keeps the object the
\* previous execution bound to it until a statement rebinds it.
Rerun ==
    /\ pc = "done"
    /\ run < MaxRuns
    /\ hist' = Append(hist, Snapshot)
    /\ run' = run + 1
    /\ x0' \in X0s /\ xT' \in XTs
    /\ pc' = "L78"
    /\ nBack' = 0 /\ nCent' = 0 /\ nForw' = 0
    /\ UNCHANGED <<lam, alpha, T, N, h, t, bufs, i, xi, it, k, err>>

\* one statement of the script
Step ==
    \/ L78 \/ L79
    \/ L92 \/ L93 \/ L94 \/ L96 \/ L97 \/ L98 \/ L100
    \/ L106 \/ L107 \/ L108 \/ L109 \/ L111 \/ L112
    \/ L118 \/ L119 \/ L121 \/ L122

Next == Step \/ Rerun

Spec == Init /\ [][Next]_vars

\* the interpreter runs the script's next statement as long as there is one
LiveSpec == Spec /\ WF_vars(Step)

\* ================================================================ claims
\* statements at which the named scheme of the current execution has finished
AfterBack == {"L106", "L107", "L108", "L109", "L111", "L112",
              "L118", "L119", "L121", "L122", "done"}
AfterCent == {"L118", "L119", "L121", "L122", "done"}
Finished  == pc = "done"

\* the previous execution, when there is one
Earlier == hist[run - 1]
SameButXT(p) ==
    p.lam = lam /\ p.alpha = alpha /\ p.T = T /\ p.x0 = x0 /\ p.N = N
SameParams(p) == SameButXT(p) /\ p.xT = xT

\* C1 (as claimed): when the central scheme has finished, x_cent[0] = x0 and
\* x_cent[N] = xT.
C1_CentralEndpointsPinned ==
    pc \in AfterCent => x_cent[0] = x0 /\ x_cent[N] = xT

\* C2: when the backward scheme has finished, x_back[0] = x0 and x_back[N] = xT;
\* the marching loop only ever works on an interior index 1..N-1 and the two
\* endpoints keep their boundary values all through it.
C2_BackwardEndpointsPinned ==
    /\ pc \in {"L97", "L98", "L100"} => i \in 1..(N - 1)
    /\ pc \in {"L96", "L97", "L98", "L100"} \cup AfterBack =>
           x_back[0] = x0 /\ x_back[N] = xT

C2_Witness ==
    /\ Finished /\ N >= 2 /\ nBack > 0
    /\ x_back[N] = xT /\ x_back[N - 1] # xT /\ x_back[0] = x0

\* C3: the forward trajectory starts at x0 and is the same, at every index, as
\* that of an execution that differed at most in xT.
C3_ForwardIgnoresXT ==
    Finished =>
        /\ x_forw[0] = x0
        /\ (run >= 2 /\ SameButXT(Earlier)) => x_forw = Earlier.forw

C3_Witness ==
    /\ Finished /\ run >= 2 /\ SameButXT(Earlier) /\ Earlier.xT # xT
    /\ N >= 2 /\ x_forw[N] # xT /\ x_forw = Earlier.forw

\* C4: for N >= 1 no statement raises IndexError (every index written or read
\* is within the array), and each trajectory, once created, has exactly the
\* indices 0..N of the grid.
C4_TrajectoriesHaveNPlusOneEntries ==
    N >= 1 =>
        /\ err # IndexError /\ pc # "error"
        /\ \A buf \in {x_back, x_cent, x_forw} : buf = <<>> \/ DOMAIN buf = 0..N
        /\ pc \in AfterBack => DOMAIN x_back = 0..N
        /\ pc \in AfterCent => DOMAIN x_cent = 0..N /\ DOMAIN t = 0..N
        /\ Finished => DOMAIN x_forw = 0..N

C4_Witness ==
    /\ Finished /\ N = MaxN /\ nCent = N - 1 /\ nForw = N
    /\ Size(x_back) = N + 1 /\ Size(x_cent) = N + 1 /\ Size(x_forw) = N + 1

\* C5: from the seeding statement on, x_cent[1] is x0 * exp(-lam * h); the
\* recurrence never replaces it.
C5_CentralSeedKept ==
    pc \in {"L111", "L112"} \cup AfterCent =>
        x_cent[1] = Mul(x0, NpExp(Mul(Neg(lam), h)))

C5_Witness ==
    /\ Finished /\ N >= 2 /\ nCent = N - 1
    /\ x_cent[1] = Mul(x0, NpExp(Mul(Neg(lam), h)))
    /\ x_cent[1] # x0 /\ x_cent[1] # 0

\* C6: an execution with the parameters of the one before it ends with the
\* same three trajectories.
C6_RerunIdempotent ==
    (Finished /\ run >= 2 /\ SameParams(Earlier)) =>
        /\ x_back = Earlier.back
        /\ x_cent = Earlier.cent
        /\ x_forw = Earlier.forw

C6_Witness ==
    /\ Finished /\ run >= 2 /\ SameParams(Earlier) /\ N >= 3
    /\ x_back = Earlier.back /\ x_back[N - 1] # x_back[0]

\* the three-point relation at index j of the central trajectory
CentralRelation(j) ==
    x_cent[j + 1] = Add(x_cent[j - 1], Mul(Mul(2 * One, h), f(x_cent[j])))

\* C7: when the central scheme has finished, x_cent[i+1] = x_cent[i-1] +
\* 2*h*f(x_cent[i]) for every i in 1..N-1, x_cent[0] = x0 and x_cent[1] is the
\* seed; the loop takes i = 1, 2, ... in turn and, when it works on i, the
\* relation already holds below i.
C7_CentralRecurrence ==
    /\ pc \in AfterCent =>
           /\ x_cent[0] = x0
           /\ x_cent[1] = Mul(x0, NpExp(Mul(Neg(lam), h)))
           /\ \A j \in 1..(N - 1) : CentralRelation(j)
    /\ pc = "L112" =>
           /\ i = nCent + 1 /\ i \in 1..(N - 1)
           /\ \A j \in 1..(i - 1) : CentralRelation(j)

C7_Witness ==
    /\ Finished /\ N >= 3 /\ nCent = N - 1
    /\ CentralRelation(N - 1) /\ x_cent[N] # xT /\ x_cent[N] # x_cent[N - 2]

\* the iterates y, g(y), ..., g^n(y) of g(y) = (p + h*y^alpha) / (1 + h*lam)
RECURSIVE Iterates(_, _, _)
Iterates(n, p, y) ==
    IF n = 0 THEN <<y>>
    ELSE LET s == Iterates(n - 1, p, y)
         IN  Append(s, NpDiv(Add(p, Mul(h, Pow(s[n], alpha))), Add(One, Mul(h, lam))))
Iterate(n, p, y) == Iterates(n, p, y)[n + 1]

\* C8: every interior x_back[i] is the 15th iterate of the map started from
\* x_back[i-1]; the entries 0..N-1 are those of an execution that differed at
\* most in xT.
C8_BackwardFifteenIterates ==
    /\ pc \in AfterBack =>
           \A j \in 1..(N - 1) : x_back[j] = Iterate(15, x_back[j - 1], x_back[j - 1])
    /\ pc = "L98" => xi = Iterate(k, x_back[i - 1], x_back[i - 1])
    /\ (Finished /\ run >= 2 /\ SameButXT(Earlier)) =>
           \A j \in 0..(N - 1) : x_back[j] = Earlier.back[j]

C8_Witness ==
    /\ Finished /\ N >= 3 /\ nBack > 0
    /\ x_back[1] = Iterate(15, x_back[0], x_back[0])
    /\ x_back[1] # Iterate(15 - 1, x_back[0], x_back[0])
    /\ x_back[2] # x_back[1]

\* C9: for N >= 1 every execution reaches its end; the schemes run one after
\* the other, and at the end the backward scheme has made 15*(N-1) fixed-point
\* updates, the central scheme N-1 steps and the forward scheme N steps.
C9_Counts ==
    /\ pc \in AfterBack => nBack = 15 * (N - 1)
    /\ pc \notin AfterBack => nCent = 0
    /\ pc \in AfterCent => nCent = N - 1
    /\ pc \notin AfterCent => nForw = 0
    /\ Finished => nForw = N

C9_TerminatesWithFixedCounts ==
    /\ []C9_Counts
    /\ \A r \in 1..MaxRuns : (N >= 1 /\ run = r) ~> (Finished /\ run = r)

C9_Witness ==
    /\ Finished /\ N = MaxN /\ run = MaxRuns
    /\ nBack = 15 * (N - 1) /\ nCent = N - 1 /\ nForw = N

\* C10: with N = 0 the execution stops at line 78 with ZeroDivisionError;
\* neither the grid nor any trajectory is ever created.
C10_ZeroNFaultsFirst ==
    /\ N = 0 =>
           /\ pc \in {"L78", "error"}
           /\ t = <<>> /\ x_back = <<>> /\ x_cent = <<>> /\ x_forw = <<>>
    /\ pc = "error" => N = 0 /\ err = ZeroDivisionError

C10_Witness ==
    /\ pc = "error" /\ N = 0 /\ err = ZeroDivisionError
    /\ x_back = <<>> /\ x_cent = <<>> /\ x_forw = <<>>

====
